---- MODULE Spec2Model ----
(***************************************************************************)
(* Session and contact synchronisation core of the phonebook client:       *)
(* the redux auth slice (src/redux/authSlice.js, IndexedDB revision), the  *)
(* contacts slice, the axios interceptors, the IndexedDB/localStorage      *)
(* persistence (services/db.js) and the local fallback API                 *)
(* (services/mockApi.js).                                                  *)
(*                                                                         *)
(* Every thunk is cut at its await points: one action per resumption.  The *)
(* remote API is an external collaborator whose answer to a request is     *)
(* chosen freely among success, an HTTP error status and no response.      *)
(***************************************************************************)
EXTENDS Integers, Sequences, FiniteSets, TLC

\* ------------------------------------------------------------------ bounds
MaxInFlight == 2    \* thunks in flight at once
MaxClock == 4       \* distinct readings of Date.now()
MaxReloads == 1     \* page reloads (process restarts)
MaxOps == 3         \* operations dispatched in one run
\* the longest filter text typed and the longest collection it is applied to
MaxFilterLen == 2
MaxShown == 3
\* the operations dispatched in a run that is followed to its end
MaxLiveOps == 2

Slots == 1..MaxInFlight

\* ------------------------------------------------------------------ data
Null == "null"
Emails == {"e1", "e2"}
\* the bearer token the remote API issues for an account, and the account a
\* token stands for (a token the remote never issued is answered as e1's)
RemoteToken(email) == "rt-" \o email
RemoteAccount(token) == IF token = RemoteToken("e2") THEN "e2" ELSE "e1"
\* the ids the remote API gives to contacts
RemoteContactId(n) == "k" \o ToString(n)
RemoteContactIds == {RemoteContactId(n) : n \in 0..MaxOps}

\* { name: null, email: null }
EmptyUser == [name |-> Null, email |-> Null]
NoError == [message |-> Null]
NoData == [none |-> TRUE]

\* what became of a request: kind is "unsent", "ok", "http" or "none"
Unsent == [kind |-> "unsent", status |-> 0]
OkResp == [kind |-> "ok", status |-> 200]
NoResponse == [kind |-> "none", status |-> 0]
HttpErr(s) == [kind |-> "http", status |-> s]
\* the answers an endpoint can give: success, no response, or an error status
Answers(statuses) == {OkResp, NoResponse} \cup {HttpErr(s) : s \in statuses}
UserAnswers == Answers({400, 401, 409, 500})
SessionAnswers == Answers({401, 500})

\* the user record the remote API answers with for an account
RemoteUser(name, email) == [id |-> "id-" \o email, name |-> name, email |-> email]

\* Date.now().toString() and `mock-jwt-token-${Date.now()}`
MockId(t) == ToString(t)
MockToken(t) == "mock-jwt-token-" \o ToString(t)

PublicUser(u) == [id |-> u.id, name |-> u.name, email |-> u.email]

VARIABLES
  auth,      \* state.auth: user, token, isLoggedIn, isRefreshing, error
  contacts,  \* state.contacts: items, status, error
  hdr,       \* axios.defaults.headers.common['Authorization'] (the token, or Null)
  idb,       \* IndexedDB: token (auth store), users, contacts (sets keyed by id)
  ls,        \* localStorage: token (auth_token), users (mock_users), contacts (mock_contacts)
  idbUp,     \* whether getDB() resolves (window.indexedDB is supported)
  ops,       \* the thunks in flight, one per slot
  detached,  \* setAuthHeader(null) calls started by a reducer and not awaited
  now,       \* Date.now()
  reloads,   \* page reloads so far
  dispatched, \* operations dispatched so far
  srv,       \* the remote API: the contacts of each account, the next id
  hist,      \* what the last contacts operations were (history)
  act        \* the step just taken (history only)

vars == <<auth, contacts, hdr, idb, ls, idbUp, ops, detached, now, reloads, dispatched,
          srv, hist, act>>

Idle == [kind |-> "idle", pc |-> "idle", arg |-> NoData, tok |-> Null,
         res |-> NoData, resp |-> Unsent, timer |-> 0]

NoAct == [kind |-> "none", step |-> "none", out |-> "-", resp |-> Unsent,
          tok |-> Null, arg |-> NoData, payload |-> NoData]

\* The history of the contacts operations, kept for the properties that relate
\* two operations.  fresh: the collection is the result of a fulfilled fetch,
\* no other fetch was in flight when it resolved, and no add or delete has
\* taken a step since.  added: the id the last fulfilled add returned, if no
\* delete was in flight when it resolved and no fetch, add or delete has
\* resolved and no fetch or add has been dispatched since ("null" otherwise).
\* session: "in" once a login is fulfilled, "out" once a logout is fulfilled
\* after that and has left no token in the local store, "none" as soon as a
\* register, login or update takes another step.
\* overlap: "one" once a fetch has resolved while another fetch was in flight,
\* "both" in the state where the last of such fetches has just resolved.
\* stale: the slots of the adds and deletes that were in flight when a fetch was
\* fulfilled and have not resolved since.  late: one of them has just been
\* fulfilled.  loggedOut: a logout has resolved and no login or register has
\* been fulfilled since.  saved: the token of the last fulfilled login or
\* register, Null once a logout has resolved after it.
NoHist == [fresh |-> FALSE, added |-> Null, session |-> "none", overlap |-> "no",
           stale |-> {}, late |-> FALSE, loggedOut |-> FALSE, saved |-> Null]
InFlight(kind) == \E s \in Slots : ops[s].kind = kind
Mutating == {s \in Slots : ops[s].kind \in {"add", "delete"}}
HistNext ==
  LET done == act'.step = "resolve"
      ok == done /\ act'.out = "fulfilled"
  IN hist' =
       [fresh |-> IF act'.kind = "fetch" /\ ok THEN ~InFlight("fetch")'
                  ELSE IF act'.kind \in {"add", "delete", "reload"} THEN FALSE
                  ELSE hist.fresh,
        added |-> IF act'.kind = "add" /\ ok
                  THEN (IF InFlight("delete")' THEN Null ELSE act'.payload.id)
                  ELSE IF act'.kind \in {"fetch", "add", "reload"} THEN Null
                  ELSE IF act'.kind = "delete" /\ done THEN Null
                  ELSE hist.added,
        session |-> IF act'.kind = "login" /\ ok THEN "in"
                    ELSE IF act'.kind \in {"login", "register", "update"} THEN "none"
                    ELSE IF act'.kind = "logout" /\ ok
                         THEN (IF hist.session = "in" /\ idb'.token = Null
                                  /\ ls'.token = Null
                               THEN "out" ELSE "none")
                    ELSE hist.session,
        overlap |-> IF act'.kind = "fetch" /\ done
                    THEN (IF InFlight("fetch")' THEN "one"
                          ELSE IF hist.overlap = "one" THEN "both" ELSE "no")
                    ELSE IF hist.overlap = "one" /\ act'.kind # "reload" THEN "one"
                    ELSE "no",
        stale |-> IF act'.kind = "fetch" /\ ok THEN Mutating'
                  ELSE hist.stale \cap Mutating',
        late |-> /\ ok /\ act'.kind \in {"add", "delete"}
                 /\ \E s \in hist.stale : ops[s] # Idle /\ ops'[s] = Idle,
        loggedOut |-> IF act'.kind = "logout" /\ done THEN TRUE
                      ELSE IF act'.kind \in {"login", "register"} /\ ok THEN FALSE
                      ELSE hist.loggedOut,
        saved |-> IF act'.kind = "logout" /\ done THEN Null
                  ELSE IF act'.kind \in {"login", "register"} /\ ok
                       THEN act'.payload.token
                  ELSE hist.saved]

Step(o, name) == [kind |-> o.kind, step |-> name, out |-> "-", resp |-> o.resp,
                  tok |-> o.tok, arg |-> o.arg, payload |-> NoData]

Resolved(o, outcome, p) == [kind |-> o.kind, step |-> "resolve", out |-> outcome,
                            resp |-> o.resp, tok |-> o.tok, arg |-> o.arg, payload |-> p]

\* ------------------------------------------------------------------ helpers
Range(q) == {q[i] : i \in 1..Len(q)}

\* Array.prototype.findIndex / find and an index get take the first match:
\* FindIndex is the least index in I (0 for -1), Find the element there
FindIndex(I) == IF I = {} THEN 0 ELSE CHOOSE i \in I : \A j \in I : i <= j
Find(q, I) == IF I = {} THEN NoData ELSE q[FindIndex(I)]

\* ------------------------------------------------------------------ services/db.js
\* The two persistence tiers travel together as st = [idb |-> ..., ls |-> ...].
\* An object store is a sequence in key order: keys are Date.now() readings, the
\* clock never goes back and add() refuses a key that is present, so the order of
\* insertion is the order of the keys.
Store == [idb |-> idb, ls |-> ls]

\* a save that stores the token nowhere
dbSaveTokenNowhere(st, token) == st
dbSaveToken(st, token) ==
  IF idbUp THEN [st EXCEPT !.idb.token = token]
  ELSE [st EXCEPT !.ls.token = token]

dbGetToken(st) == IF idbUp THEN st.idb.token ELSE st.ls.token

\* a removal that takes the cached contacts with the token
dbRemoveTokenAndContacts(st) ==
  IF idbUp THEN [st EXCEPT !.idb.token = Null, !.ls.token = Null,
                           !.idb.contacts = <<>>, !.ls.contacts = <<>>]
  ELSE [st EXCEPT !.ls.token = Null, !.ls.contacts = <<>>]
dbRemoveToken(st) ==
  IF idbUp THEN [st EXCEPT !.idb.token = Null, !.ls.token = Null]
  ELSE [st EXCEPT !.ls.token = Null]

\* store.add(user) succeeds unless the key or the unique email index clashes
CanAddUser(st, user) ==
  \A u \in Range(st.idb.users) : u.id # user.id /\ u.email # user.email

dbAddUser(st, user) ==
  IF idbUp /\ CanAddUser(st, user)
  THEN LET users == Append(st.idb.users, user)
       IN [st EXCEPT !.idb.users = users, !.ls.users = users]
  ELSE [st EXCEPT !.ls.users = Append(@, user)]

\* store.put(user) replaces the record with that key unless the unique email
\* index clashes with another record
CanPutUser(st, user) ==
  \A u \in Range(st.idb.users) : u.id = user.id \/ u.email # user.email

PutById(q, r) ==
  LET i == FindIndex({j \in 1..Len(q) : q[j].id = r.id})
  IN IF i # 0 THEN [q EXCEPT ![i] = r] ELSE Append(q, r)

dbUpdateUser(st, user) ==
  IF idbUp /\ CanPutUser(st, user)
  THEN LET users == PutById(st.idb.users, user)
       IN [st EXCEPT !.idb.users = users, !.ls.users = users]
  ELSE [st EXCEPT !.ls.users = PutById(@, user)]

dbFindUserByEmail(st, email) ==
  LET users == IF idbUp THEN st.idb.users ELSE st.ls.users
  IN Find(users, {i \in 1..Len(users) : users[i].email = email})

dbFindUserByToken(st, token) ==
  LET users == IF idbUp THEN st.idb.users ELSE st.ls.users
  IN Find(users, {i \in 1..Len(users) : users[i].token = token})

\* dbGetContacts also copies what it read to localStorage
dbGetContacts(st) == IF idbUp THEN st.idb.contacts ELSE st.ls.contacts
dbGetContactsSync(st) ==
  IF idbUp THEN [st EXCEPT !.ls.contacts = st.idb.contacts] ELSE st

CanAddContact(st, c) == \A x \in Range(st.idb.contacts) : x.id # c.id

dbAddContact(st, c) ==
  IF idbUp /\ CanAddContact(st, c)
  THEN LET cs == Append(st.idb.contacts, c)
       IN [st EXCEPT !.idb.contacts = cs, !.ls.contacts = cs]
  ELSE [st EXCEPT !.ls.contacts = Append(@, c)]

dbDeleteContact(st, id) ==
  IF idbUp
  THEN LET cs == SelectSeq(st.idb.contacts, LAMBDA c : c.id # id)
       IN [st EXCEPT !.idb.contacts = cs, !.ls.contacts = cs]
  ELSE [st EXCEPT !.ls.contacts = SelectSeq(@, LAMBDA c : c.id # id)]

\* ------------------------------------------------------------------ utils/axiosConfig.js
\* The error object a thunk's catch block sees.  An HTTP error answer carries both
\* error.response and error.request (the request that was answered); the response
\* interceptor replaces an error without response by { message, code,
\* isNetworkError }, which has neither.
HasResponse(r) == r.kind = "http"
HasRequest(r) == r.kind = "http"

\* error.request || message === 'Network Error' || code === ... || !error.response
IsNetworkError(r) == HasRequest(r) \/ ~HasResponse(r)

\* axios.interceptors.response: on 401 the localStorage token and the default
\* header go
InterceptLs(r, l) ==
  IF HasResponse(r) /\ r.status = 401 THEN [l EXCEPT !.token = Null] ELSE l
InterceptHdr(r, h) ==
  IF HasResponse(r) /\ r.status = 401 THEN Null ELSE h

\* ------------------------------------------------------------------ redux/authSlice.js
\* setAuthHeader(token): the two tiers and the default header afterwards
setAuthHeader(st, token) ==
  IF token # Null
  THEN [st |-> dbSaveToken(st, token), hdr |-> token]
  ELSE [st |-> dbRemoveToken(st), hdr |-> Null]

\* getTokenFromStorage: localStorage.getItem('auth_token')
getTokenFromStorage(l) == l.token

\* getTokenFromStorageAsync: dbGetToken()
\* a lookup that answers with a token the store no longer holds
getTokenFromStorageAsyncStale(st) == RemoteToken("e1")
getTokenFromStorageAsync(st) == dbGetToken(st)

getInitialState(l) ==
  [user |-> EmptyUser, token |-> getTokenFromStorage(l), isLoggedIn |-> FALSE,
   isRefreshing |-> TRUE, error |-> NoError]

\* rejectWithValue({ status, message, data })
StatusPayload(status, message) == [status |-> status, message |-> message]
\* rejectWithValue({ message })
MessagePayload(message) == [status |-> 0, message |-> message]

\* --- reducers (extraReducers of authSlice)
registerPending(a) == [a EXCEPT !.error = NoError]
registerFulfilled(a, payload) ==
  [a EXCEPT !.user = payload.user, !.token = payload.token, !.isLoggedIn = TRUE]
\* a rejection that also drops the session on a validation status
registerRejectedClears(a, payload) ==
  IF payload.status \in {400, 409}
  THEN [a EXCEPT !.error = payload, !.token = Null, !.isLoggedIn = FALSE]
  ELSE [a EXCEPT !.error = payload]
registerRejected(a, payload) == [a EXCEPT !.error = payload]

loginPending(a) == [a EXCEPT !.error = NoError, !.isRefreshing = FALSE]
loginFulfilled(a, payload) ==
  [a EXCEPT !.user = payload.user, !.token = payload.token, !.isLoggedIn = TRUE]
\* the reducer also starts setAuthHeader(null) without awaiting it
LoginClears(payload) == payload.status = 400 \/ payload.status = 401
loginRejected(a, payload) ==
  IF LoginClears(payload)
  THEN [a EXCEPT !.error = payload, !.token = Null, !.isLoggedIn = FALSE]
  ELSE [a EXCEPT !.error = payload]

logoutPending(a) == [a EXCEPT !.error = NoError]
\* a logout that forgets to reset the user
logoutFulfilledKeepsUser(a) ==
  [a EXCEPT !.token = Null, !.isLoggedIn = FALSE, !.error = NoError]
logoutFulfilled(a) ==
  [a EXCEPT !.user = EmptyUser, !.token = Null, !.isLoggedIn = FALSE, !.error = NoError]

refreshPending(a) == [a EXCEPT !.isRefreshing = TRUE, !.error = NoError]
\* a fulfilment that leaves isRefreshing set
refreshFulfilledStillRefreshing(a, payload, l) ==
  [a EXCEPT !.user = payload, !.isLoggedIn = TRUE]
refreshFulfilled(a, payload, l) ==
  [a EXCEPT !.user = payload, !.isLoggedIn = TRUE, !.isRefreshing = FALSE,
            !.token = IF @ = Null /\ getTokenFromStorage(l) # Null
                      THEN getTokenFromStorage(l) ELSE @]
\* a test of the message that knows 'No token' only
RefreshClearsNoTokenOnly(payload) == payload.message = "No token available"
\* a rejection that leaves isRefreshing set
refreshRejectedStillRefreshing(a, payload) ==
  IF payload.message \in {"Invalid or expired token", "No token available"}
  THEN [a EXCEPT !.user = EmptyUser, !.token = Null, !.isLoggedIn = FALSE]
  ELSE a
\* message.includes('Invalid') || includes('expired') || includes('No token')
RefreshClears(payload) ==
  payload.message \in {"Invalid or expired token", "No token available"}
\* a rejection that never gives the token up
refreshRejectedKeepsToken(a, payload) == [a EXCEPT !.isRefreshing = FALSE]
refreshRejected(a, payload) ==
  IF RefreshClears(payload)
  THEN [a EXCEPT !.isRefreshing = FALSE, !.user = EmptyUser, !.token = Null,
                 !.isLoggedIn = FALSE]
  ELSE [a EXCEPT !.isRefreshing = FALSE]

updatePending(a) == [a EXCEPT !.error = NoError]
updateFulfilled(a, payload) == [a EXCEPT !.user = payload, !.isLoggedIn = TRUE]
updateRejected(a, payload) == [a EXCEPT !.error = payload]

setCredentials(a, payload) ==
  [a EXCEPT !.user = payload.user, !.token = payload.token, !.isLoggedIn = TRUE]

\* ------------------------------------------------------------------ App.jsx
\* String.prototype.toLowerCase on the names in use
toLowerCase(name) == IF name = "Bob" THEN "bob" ELSE name

\* App renders only "Loading..." while isRefreshing; otherwise the router with
\* the public pages /login and /register
\* (App computes `shown` from c.name of every contact before it returns its
\* tree: with a null in the collection the render throws and nothing is shown)
Rendered == \A i \in 1..Len(contacts.items) : contacts.items[i].name # Null
PublicShown == ~auth.isRefreshing /\ Rendered

\* PrivateRoute shows its children (/contacts, /profile); UserMenu is rendered
\* under the same condition
PrivateShown ==
  /\ Rendered
  /\ ~auth.isRefreshing
  /\ ~(auth.token # Null /\ ~auth.isLoggedIn)
  /\ auth.isLoggedIn

\* A text is the sequence of its characters; LettersOf spells the names in use.
LettersOf == [Ann |-> <<"A", "n", "n">>, Bob |-> <<"B", "o", "b">>, bo |-> <<"b", "o">>]
Letters(name) == LettersOf[name]

\* String.prototype.toLowerCase, character by character
LowerChar(c) == CASE c = "A" -> "a" [] c = "B" -> "b" [] OTHER -> c
toLowerCaseText(t) == [i \in 1..Len(t) |-> LowerChar(t[i])]

\* String.prototype.trim: the white space at both ends goes
trim(t) ==
  LET I == {i \in 1..Len(t) : t[i] # " "}
  IN IF I = {} THEN <<>>
     ELSE SubSeq(t, CHOOSE i \in I : \A j \in I : i <= j,
                    CHOOSE i \in I : \A j \in I : j <= i)

\* a match that looks at the start of the text only
includesAtStart(t, part) == Len(part) <= Len(t) /\ SubSeq(t, 1, Len(part)) = part
\* String.prototype.includes
includes(t, part) ==
  \E k \in 0..(Len(t) - Len(part)) : SubSeq(t, k + 1, k + Len(part)) = part

\* the list handed to ContactList:
\* contacts.filter(c => c.name.toLowerCase().includes(filter.trim().toLowerCase()))
Shown(c) ==
  SelectSeq(c.items,
            LAMBDA x : includes(toLowerCaseText(Letters(x.name)),
                                toLowerCaseText(trim(c.filter))))

\* Filter is rendered on /contacts when the collection is not empty
FilterShown == PrivateShown /\ Len(contacts.items) > 0

\* PrivateRoute shows "Loading..." instead of its children or the redirect
PrivateLoading == auth.isRefreshing \/ (auth.token # Null /\ ~auth.isLoggedIn)

\* the effect that dispatches refreshUser() on load
RefreshEffect ==
  /\ ~auth.isLoggedIn /\ auth.isRefreshing
  /\ \A s \in Slots : ops[s].kind # "refresh"

\* the effect that dispatches fetchContacts()
\* an effect that does not look at isLoggedIn
FetchEffectAnonymous == ~auth.isRefreshing
FetchEffect == auth.isLoggedIn /\ ~auth.isRefreshing /\ Rendered

\* handleAddContact: a name already shown is refused (case-insensitive)
CanSubmitContact(contact) ==
  \A c \in Range(contacts.items) : toLowerCase(c.name) # toLowerCase(contact.name)

\* handleDelete is reached from the delete button of a contact that is shown
CanClickDelete(id) == \E c \in Range(contacts.items) : c.id = id

ContactIds == RemoteContactIds \cup {MockId(t) : t \in 1..MaxClock}

\* --- the slot a dispatch takes: the lowest idle one
FreeSlot(s) == ops[s] = Idle /\ \A t \in Slots : t < s => ops[t] # Idle

\* a dispatch: the thunk takes slot s
Dispatch(s) ==
  /\ FreeSlot(s)
  /\ dispatched < MaxOps
  /\ dispatched' = dispatched + 1

Start(s, kind, pc, arg, tok) ==
  ops' = [ops EXCEPT ![s] = [kind |-> kind, pc |-> pc, arg |-> arg, tok |-> tok,
                             res |-> NoData, resp |-> Unsent, timer |-> 0]]
Goto(s, pc) == ops' = [ops EXCEPT ![s].pc = pc]
Finish(s) == ops' = [ops EXCEPT ![s] = Idle]
At(s, kind, pc) == ops[s].kind = kind /\ ops[s].pc = pc

\* the callback of a fallback's setTimeout runs later than the call that set
\* the timer: Date.now() has moved on
TimerFired(s) == now > ops[s].timer
\* a fallback that will read Date.now() waits for its timer
AwaitsClock(s) == At(s, "register", "mockFind") \/ At(s, "add", "mock")

PutStore(st) == idb' = st.idb /\ ls' = st.ls

\* --- registerUser
UserDatas == [name : {"n1"}, email : Emails]

RegisterDispatch(s, userData) ==
  /\ PublicShown
  /\ Dispatch(s)
  /\ auth' = registerPending(auth)
  /\ Start(s, "register", "remote", userData, Null)
  /\ act' = Step(ops'[s], "dispatch")
  /\ UNCHANGED <<contacts, hdr, idb, ls, idbUp, detached, now, reloads, srv>>
  /\ HistNext

\* POST /users/signup is answered (or not)
RegisterResponse(s, r) ==
  /\ At(s, "register", "remote")
  /\ LET o == [ops[s] EXCEPT !.resp = r]
     IN \/ /\ r = OkResp
           /\ ops' = [ops EXCEPT ![s] = [o EXCEPT !.pc = "save",
                        !.res = [user |-> RemoteUser(o.arg.name, o.arg.email),
                                 token |-> RemoteToken(o.arg.email)]]]
           /\ act' = Step(o, "response")
           /\ UNCHANGED <<auth, hdr, ls>>
        \/ /\ HasResponse(r)
           /\ ls' = InterceptLs(r, ls)
           /\ hdr' = InterceptHdr(r, hdr)
           /\ auth' = registerRejected(auth, StatusPayload(r.status, "Registration failed"))
           /\ Finish(s)
           /\ act' = Resolved(o, "rejected", StatusPayload(r.status, "Registration failed"))
        \/ /\ ~HasResponse(r) /\ r # OkResp /\ IsNetworkError(r)
           /\ ops' = [ops EXCEPT ![s] = [o EXCEPT !.pc = "mockFind", !.timer = now]]
           /\ act' = Step(o, "response")
           /\ UNCHANGED <<auth, hdr, ls>>
  /\ UNCHANGED <<contacts, idb, idbUp, detached, now, reloads, dispatched, srv>>
  /\ HistNext

\* mockRegisterUser up to dbAddUser, run by setTimeout(500): the email check
\* and the new record
RegisterMockFind(s) ==
  /\ At(s, "register", "mockFind")
  /\ TimerFired(s)
  /\ LET o == ops[s]
         existingUser == dbFindUserByEmail(Store, o.arg.email)
         newUser == [id |-> MockId(now), name |-> o.arg.name, email |-> o.arg.email,
                     token |-> MockToken(now)]
     IN IF existingUser # NoData
        THEN /\ auth' = registerRejected(auth,
                          StatusPayload(409, "User with this email already exists"))
             /\ Finish(s)
             /\ act' = Resolved(o, "rejected",
                          StatusPayload(409, "User with this email already exists"))
        ELSE /\ ops' = [ops EXCEPT ![s].pc = "mockAdd", ![s].res = newUser]
             /\ act' = Step(o, "mockFind")
             /\ UNCHANGED auth
  /\ UNCHANGED <<contacts, hdr, idb, ls, idbUp, detached, now, reloads, dispatched, srv>>
  /\ HistNext

\* dbAddUser(newUser), then mockRegisterUser resolves
RegisterMockAdd(s) ==
  /\ At(s, "register", "mockAdd")
  /\ LET o == ops[s]
     IN /\ PutStore(dbAddUser(Store, o.res))
        /\ ops' = [ops EXCEPT ![s].pc = "save",
                     ![s].res = [user |-> PublicUser(o.res), token |-> o.res.token]]
        /\ act' = Step(o, "mockAdd")
  /\ UNCHANGED <<auth, contacts, hdr, idbUp, detached, now, reloads, dispatched, srv>>
  /\ HistNext

\* await setAuthHeader(token); return data  ->  registerUser.fulfilled
RegisterSave(s) ==
  /\ At(s, "register", "save")
  /\ LET o == ops[s]
         h == setAuthHeader(Store, o.res.token)
     IN /\ PutStore(h.st)
        /\ hdr' = h.hdr
        /\ auth' = registerFulfilled(auth, o.res)
        /\ Finish(s)
        /\ act' = Resolved(o, "fulfilled", o.res)
  /\ UNCHANGED <<contacts, idbUp, detached, now, reloads, dispatched, srv>>
  /\ HistNext

\* --- loginUser
LoginDispatch(s, userData) ==
  /\ PublicShown
  /\ Dispatch(s)
  /\ auth' = loginPending(auth)
  /\ Start(s, "login", "remote", userData, Null)
  /\ act' = Step(ops'[s], "dispatch")
  /\ UNCHANGED <<contacts, hdr, idb, ls, idbUp, detached, now, reloads, srv>>
  /\ HistNext

\* POST /users/login is answered (or not)
LoginResponse(s, r) ==
  /\ At(s, "login", "remote")
  /\ LET o == [ops[s] EXCEPT !.resp = r]
         p == StatusPayload(r.status, "Login failed")
     IN \/ /\ r = OkResp
           /\ ops' = [ops EXCEPT ![s] = [o EXCEPT !.pc = "save",
                        !.res = [user |-> RemoteUser("n1", o.arg.email),
                                 token |-> RemoteToken(o.arg.email)]]]
           /\ act' = Step(o, "response")
           /\ UNCHANGED <<auth, hdr, ls, detached>>
        \/ /\ HasResponse(r)
           /\ ls' = InterceptLs(r, ls)
           /\ hdr' = InterceptHdr(r, hdr)
           /\ auth' = loginRejected(auth, p)
           /\ detached' = (detached \/ LoginClears(p))
           /\ Finish(s)
           /\ act' = Resolved(o, "rejected", p)
        \/ /\ ~HasResponse(r) /\ r # OkResp /\ IsNetworkError(r)
           /\ ops' = [ops EXCEPT ![s] = [o EXCEPT !.pc = "mockFind"]]
           /\ act' = Step(o, "response")
           /\ UNCHANGED <<auth, hdr, ls, detached>>
  /\ UNCHANGED <<contacts, idb, idbUp, now, reloads, dispatched, srv>>
  /\ HistNext

\* mockLoginUser: the password is not looked at
LoginMockFind(s) ==
  /\ At(s, "login", "mockFind")
  /\ LET o == ops[s]
         user == dbFindUserByEmail(Store, o.arg.email)
         p == StatusPayload(401, "Invalid email or password")
     IN IF user = NoData
        THEN /\ auth' = loginRejected(auth, p)
             /\ detached' = TRUE
             /\ Finish(s)
             /\ act' = Resolved(o, "rejected", p)
        ELSE /\ ops' = [ops EXCEPT ![s].pc = "save",
                          ![s].res = [user |-> PublicUser(user), token |-> user.token]]
             /\ act' = Step(o, "mockFind")
             /\ UNCHANGED <<auth, detached>>
  /\ UNCHANGED <<contacts, hdr, idb, ls, idbUp, now, reloads, dispatched, srv>>
  /\ HistNext

\* await setAuthHeader(token); return data  ->  loginUser.fulfilled
LoginSave(s) ==
  /\ At(s, "login", "save")
  /\ LET o == ops[s]
         h == setAuthHeader(Store, o.res.token)
     IN /\ PutStore(h.st)
        /\ hdr' = h.hdr
        /\ auth' = loginFulfilled(auth, o.res)
        /\ Finish(s)
        /\ act' = Resolved(o, "fulfilled", o.res)
  /\ UNCHANGED <<contacts, idbUp, detached, now, reloads, dispatched, srv>>
  /\ HistNext

\* the setAuthHeader(null) that loginUser.rejected started completes
DetachedClear ==
  /\ detached
  /\ LET h == setAuthHeader(Store, Null)
     IN PutStore(h.st) /\ hdr' = h.hdr
  /\ detached' = FALSE
  /\ act' = [NoAct EXCEPT !.kind = "login", !.step = "detachedClear"]
  /\ UNCHANGED <<auth, contacts, idbUp, ops, now, reloads, dispatched, srv>>
  /\ HistNext

\* --- logoutUser
\* the token comes from the state or, failing that, from storage (an await)
LogoutDispatch(s) ==
  /\ PrivateShown
  /\ Dispatch(s)
  /\ auth' = logoutPending(auth)
  /\ IF auth.token # Null
     THEN /\ Start(s, "logout", "remote", NoData, auth.token)
          /\ hdr' = auth.token
     ELSE /\ Start(s, "logout", "getTok", NoData, Null)
          /\ UNCHANGED hdr
  /\ act' = Step(ops'[s], "dispatch")
  /\ UNCHANGED <<contacts, idb, ls, idbUp, detached, now, reloads, srv>>
  /\ HistNext

LogoutGetTok(s) ==
  /\ At(s, "logout", "getTok")
  /\ LET token == getTokenFromStorageAsync(Store)
     IN /\ ops' = [ops EXCEPT ![s].pc = "remote", ![s].tok = token]
        /\ hdr' = IF token # Null THEN token ELSE hdr
  /\ act' = Step(ops[s], "getTok")
  /\ UNCHANGED <<auth, contacts, idb, ls, idbUp, detached, now, reloads, dispatched, srv>>
  /\ HistNext

\* POST /users/logout is answered (or not): every outcome goes on to finally
LogoutResponse(s, r) ==
  /\ At(s, "logout", "remote")
  /\ ls' = InterceptLs(r, ls)
  /\ hdr' = InterceptHdr(r, hdr)
  /\ ops' = [ops EXCEPT ![s].pc = "clear", ![s].resp = r]
  /\ act' = Step(ops'[s], "response")
  /\ UNCHANGED <<auth, contacts, idb, idbUp, detached, now, reloads, dispatched, srv>>
  /\ HistNext

\* finally { await setAuthHeader(null) }  ->  logoutUser.fulfilled
LogoutClear(s) ==
  /\ At(s, "logout", "clear")
  /\ LET h == setAuthHeader(Store, Null)
     IN PutStore(h.st) /\ hdr' = h.hdr
  /\ auth' = logoutFulfilled(auth)
  /\ Finish(s)
  /\ act' = Resolved(ops[s], "fulfilled", NoData)
  /\ UNCHANGED <<contacts, idbUp, detached, now, reloads, dispatched, srv>>
  /\ HistNext

\* --- refreshUser
RefreshDispatch(s) ==
  /\ RefreshEffect
  /\ FreeSlot(s)
  /\ auth' = refreshPending(auth)
  /\ LET token == IF auth.token # Null THEN auth.token ELSE getTokenFromStorage(ls)
     IN IF token # Null
        THEN Start(s, "refresh", "setHdr", NoData, token)
        ELSE Start(s, "refresh", "getTok", NoData, Null)
  /\ act' = Step(ops'[s], "dispatch")
  /\ UNCHANGED <<contacts, hdr, idb, ls, idbUp, detached, now, reloads, dispatched, srv>>
  /\ HistNext

NoTokenPayload == MessagePayload("No token available")
InvalidTokenPayload == MessagePayload("Invalid or expired token")
RefreshFailedPayload == MessagePayload("Failed to refresh user. Please try again.")

RefreshGetTok(s) ==
  /\ At(s, "refresh", "getTok")
  /\ LET token == getTokenFromStorageAsync(Store)
     IN IF token = Null
        THEN /\ auth' = refreshRejected(auth, NoTokenPayload)
             /\ Finish(s)
             /\ act' = Resolved(ops[s], "rejected", NoTokenPayload)
        ELSE /\ ops' = [ops EXCEPT ![s].pc = "setHdr", ![s].tok = token]
             /\ act' = Step(ops[s], "getTok")
             /\ UNCHANGED auth
  /\ UNCHANGED <<contacts, hdr, idb, ls, idbUp, detached, now, reloads, dispatched, srv>>
  /\ HistNext

\* await setAuthHeader(token), then GET /users/current goes out
RefreshSetHdr(s) ==
  /\ At(s, "refresh", "setHdr")
  /\ LET h == setAuthHeader(Store, ops[s].tok)
     IN PutStore(h.st) /\ hdr' = h.hdr
  /\ Goto(s, "remote")
  /\ act' = Step(ops[s], "setHdr")
  /\ UNCHANGED <<auth, contacts, idbUp, detached, now, reloads, dispatched, srv>>
  /\ HistNext

\* GET /users/current is answered (or not)
RefreshResponse(s, r) ==
  /\ At(s, "refresh", "remote")
  /\ LET o == [ops[s] EXCEPT !.resp = r]
         user == RemoteUser("n1", RemoteAccount(o.tok))
     IN \/ /\ r = OkResp
           /\ auth' = refreshFulfilled(auth, user, ls)
           /\ Finish(s)
           /\ act' = Resolved(o, "fulfilled", user)
           /\ UNCHANGED <<hdr, ls>>
        \/ /\ HasResponse(r) /\ r.status = 401
           /\ ls' = InterceptLs(r, ls)
           /\ hdr' = InterceptHdr(r, hdr)
           /\ ops' = [ops EXCEPT ![s] = [o EXCEPT !.pc = "clear"]]
           /\ act' = Step(o, "response")
           /\ UNCHANGED auth
        \/ /\ r # OkResp /\ ~(HasResponse(r) /\ r.status = 401)
           /\ IF IsNetworkError(r)
              THEN /\ ops' = [ops EXCEPT ![s] = [o EXCEPT !.pc = "mockFind"]]
                   /\ act' = Step(o, "response")
                   /\ UNCHANGED auth
              ELSE /\ auth' = refreshRejected(auth, RefreshFailedPayload)
                   /\ Finish(s)
                   /\ act' = Resolved(o, "rejected", RefreshFailedPayload)
           /\ UNCHANGED <<hdr, ls>>
  /\ UNCHANGED <<contacts, idb, idbUp, detached, now, reloads, dispatched, srv>>
  /\ HistNext

\* mockRefreshUser(token)
RefreshMockFind(s) ==
  /\ At(s, "refresh", "mockFind")
  /\ LET o == ops[s]
         user == dbFindUserByToken(Store, o.tok)
     IN IF user = NoData
        THEN /\ ops' = [ops EXCEPT ![s].pc = "clear"]
             /\ act' = Step(o, "mockFind")
             /\ UNCHANGED auth
        ELSE /\ auth' = refreshFulfilled(auth, PublicUser(user), ls)
             /\ Finish(s)
             /\ act' = Resolved(o, "fulfilled", PublicUser(user))
  /\ UNCHANGED <<contacts, hdr, idb, ls, idbUp, detached, now, reloads, dispatched, srv>>
  /\ HistNext

\* await setAuthHeader(null); rejectWithValue('Invalid or expired token')
RefreshClear(s) ==
  /\ At(s, "refresh", "clear")
  /\ LET h == setAuthHeader(Store, Null)
     IN PutStore(h.st) /\ hdr' = h.hdr
  /\ auth' = refreshRejected(auth, InvalidTokenPayload)
  /\ Finish(s)
  /\ act' = Resolved(ops[s], "rejected", InvalidTokenPayload)
  /\ UNCHANGED <<contacts, idbUp, detached, now, reloads, dispatched, srv>>
  /\ HistNext

\* --- updateUser
UpdateDatas == {[name |-> "n2", email |-> Null], [name |-> Null, email |-> "e2"]}

\* what PATCH /users answers for the account of the token
PatchedUser(token, userData) ==
  RemoteUser(IF userData.name # Null THEN userData.name ELSE "n1",
             IF userData.email # Null THEN userData.email ELSE RemoteAccount(token))

\* mockUpdateUser(token, userData): [st, ok, data]
mockUpdateUser(st, token, userData) ==
  LET user == dbFindUserByToken(st, token)
  IN IF user = NoData
     THEN [st |-> st, ok |-> FALSE, data |-> StatusPayload(401, "Invalid or expired token")]
     ELSE LET named == IF userData.name # Null THEN [user EXCEPT !.name = userData.name]
                       ELSE user
              existingUser == IF userData.email # Null
                              THEN dbFindUserByEmail(st, userData.email) ELSE NoData
          IN IF existingUser # NoData /\ existingUser.id # user.id
             THEN [st |-> st, ok |-> FALSE, data |-> StatusPayload(409, "Email already in use")]
             ELSE LET updated == IF userData.email # Null
                                 THEN [named EXCEPT !.email = userData.email] ELSE named
                  IN [st |-> dbUpdateUser(st, updated), ok |-> TRUE,
                      data |-> PublicUser(updated)]

UpdateDispatch(s, userData) ==
  /\ PrivateShown
  /\ Dispatch(s)
  /\ auth' = updatePending(auth)
  /\ IF auth.token # Null
     THEN Start(s, "update", "setHdr", userData, auth.token)
     ELSE Start(s, "update", "getTok", userData, Null)
  /\ act' = Step(ops'[s], "dispatch")
  /\ UNCHANGED <<contacts, hdr, idb, ls, idbUp, detached, now, reloads, srv>>
  /\ HistNext

UpdateNoTokenPayload == MessagePayload("No token available. Please log in again.")

UpdateGetTok(s) ==
  /\ At(s, "update", "getTok")
  /\ LET token == getTokenFromStorageAsync(Store)
     IN IF token = Null
        THEN /\ auth' = updateRejected(auth, UpdateNoTokenPayload)
             /\ Finish(s)
             /\ act' = Resolved(ops[s], "rejected", UpdateNoTokenPayload)
        ELSE /\ ops' = [ops EXCEPT ![s].pc = "setHdr", ![s].tok = token]
             /\ act' = Step(ops[s], "getTok")
             /\ UNCHANGED auth
  /\ UNCHANGED <<contacts, hdr, idb, ls, idbUp, detached, now, reloads, dispatched, srv>>
  /\ HistNext

\* await setAuthHeader(token), then PATCH /users goes out
UpdateSetHdr(s) ==
  /\ At(s, "update", "setHdr")
  /\ LET h == setAuthHeader(Store, ops[s].tok)
     IN PutStore(h.st) /\ hdr' = h.hdr
  /\ Goto(s, "remote")
  /\ act' = Step(ops[s], "setHdr")
  /\ UNCHANGED <<auth, contacts, idbUp, detached, now, reloads, dispatched, srv>>
  /\ HistNext

\* PATCH /users is answered (or not).  The fallback is taken on error.request,
\* which the response interceptor has removed from an error without response.
UpdateResponse(s, r) ==
  /\ At(s, "update", "remote")
  /\ LET o == [ops[s] EXCEPT !.resp = r]
         user == PatchedUser(o.tok, o.arg)
         p == StatusPayload(r.status, "Update failed")
         m == mockUpdateUser(Store, o.tok, o.arg)
     IN \/ /\ r = OkResp
           /\ auth' = updateFulfilled(auth, user)
           /\ act' = Resolved(o, "fulfilled", user)
           /\ UNCHANGED <<hdr, idb, ls>>
        \/ /\ HasResponse(r)
           /\ ls' = InterceptLs(r, ls)
           /\ hdr' = InterceptHdr(r, hdr)
           /\ auth' = updateRejected(auth, p)
           /\ act' = Resolved(o, "rejected", p)
           /\ UNCHANGED idb
        \/ /\ r # OkResp /\ ~HasResponse(r)
           /\ IF HasRequest(r)
              THEN /\ PutStore(m.st)
                   /\ auth' = IF m.ok THEN updateFulfilled(auth, m.data)
                              ELSE updateRejected(auth, m.data)
                   /\ act' = Resolved(o, IF m.ok THEN "fulfilled" ELSE "rejected", m.data)
              ELSE /\ auth' = updateRejected(auth, MessagePayload("Network Error"))
                   /\ act' = Resolved(o, "rejected", MessagePayload("Network Error"))
                   /\ UNCHANGED <<idb, ls>>
           /\ UNCHANGED hdr
  /\ Finish(s)
  /\ UNCHANGED <<contacts, idbUp, detached, now, reloads, dispatched, srv>>
  /\ HistNext

\* ------------------------------------------------------------------ redux/contactsSlice.js
Contact(id, data) == [id |-> id, name |-> data.name, number |-> data.number]
ContactDatas == [name : {"Bob"}, number : {"555"}]
BobData == [name |-> "Bob", number |-> "555"]
AnnData == [name |-> "Ann", number |-> "777"]
\* the null that mockAddContact answers with when its write failed, as an element
\* of the collection
NullContact == [id |-> Null, name |-> Null, number |-> Null]

\* The remote API keeps the contacts of each account.  GET /contacts answers
\* with the list of the account of the bearer token, POST /contacts stores the
\* contact under a fresh id, DELETE /contacts/:id removes a contact it holds.
RemoteList(token) == srv.lists[RemoteAccount(token)]
RemoteHolds(token, id) == \E c \in Range(RemoteList(token)) : c.id = id
RemoteAdd(token, c) ==
  [srv EXCEPT !.next = @ + 1, !.lists[RemoteAccount(token)] = Append(@, c)]
RemoteDelete(token, id) ==
  [srv EXCEPT !.lists[RemoteAccount(token)] = SelectSeq(@, LAMBDA c : c.id # id)]

\* ensureAuthHeader(): the header afterwards, and whether a token was found
ensureAuthHeader(st) == dbGetToken(st)

\* --- reducers (extraReducers of contactsSlice)
contactsPending(c) == [c EXCEPT !.status = "loading", !.error = Null]
\* a rejection that leaves the status as the pending action set it
contactsRejectedStillLoading(c, payload) == [c EXCEPT !.error = payload]
contactsRejected(c, payload) == [c EXCEPT !.status = "failed", !.error = payload]
\* a fetch that keeps what was shown and adds the answer to it
fetchFulfilledMerges(c, payload) ==
  [c EXCEPT !.status = "succeeded", !.items = @ \o payload]
\* a fetch that fills an empty collection only: the first answer stays
fetchFulfilledFirstWins(c, payload) ==
  [c EXCEPT !.status = "succeeded", !.items = IF @ = <<>> THEN payload ELSE @]
fetchFulfilled(c, payload) == [c EXCEPT !.status = "succeeded", !.items = payload]
\* an add that shows the new contact alone
addFulfilledReplaces(c, payload) ==
  [c EXCEPT !.status = "succeeded", !.items = <<payload>>]
\* an add that is dropped unless the collection is still waiting for it
addFulfilledIfLoading(c, payload) ==
  IF c.status = "loading"
  THEN [c EXCEPT !.status = "succeeded", !.items = Append(@, payload)]
  ELSE c
addFulfilled(c, payload) == [c EXCEPT !.status = "succeeded", !.items = Append(@, payload)]
updateFilter(c, payload) == [c EXCEPT !.filter = payload]
deleteFulfilled(c, payload) ==
  [c EXCEPT !.status = "succeeded",
            !.items = SelectSeq(@, LAMBDA item : item.id # payload)]

AuthRequired == "Authentication required. Please log in again."
AuthFailed == "Authentication failed. Please log in again."
ContactNotFound == "Contact not found"

\* dispatch of fetchContacts, addContact or deleteContact: pending, then
\* await ensureAuthHeader()
ContactsDispatch(s, kind, arg) ==
  /\ Dispatch(s)
  /\ contacts' = contactsPending(contacts)
  /\ Start(s, kind, "auth", arg, Null)
  /\ act' = Step(ops'[s], "dispatch")
  /\ UNCHANGED <<auth, hdr, idb, ls, idbUp, detached, now, reloads, srv>>

FetchDispatch(s) ==
  /\ FetchEffect
  /\ ContactsDispatch(s, "fetch", NoData)
  /\ HistNext

AddDispatch(s, contact) ==
  /\ PrivateShown /\ CanSubmitContact(contact)
  /\ ContactsDispatch(s, "add", contact)
  /\ HistNext

DeleteDispatch(s, id) ==
  /\ PrivateShown /\ CanClickDelete(id)
  /\ ContactsDispatch(s, "delete", [id |-> id])
  /\ HistNext

\* ensureAuthHeader() resolves: without a token the thunk rejects, with one the
\* request goes out
ContactsAuth(s) ==
  /\ ops[s].kind \in {"fetch", "add", "delete"} /\ ops[s].pc = "auth"
  /\ LET token == ensureAuthHeader(Store)
     IN /\ hdr' = token
        /\ IF token = Null
           THEN /\ contacts' = contactsRejected(contacts, AuthRequired)
                /\ Finish(s)
                /\ act' = Resolved(ops[s], "rejected", [message |-> AuthRequired])
           ELSE /\ ops' = [ops EXCEPT ![s].pc = "remote", ![s].tok = token]
                /\ act' = Step(ops'[s], "auth")
                /\ UNCHANGED contacts
  /\ UNCHANGED <<auth, idb, ls, idbUp, detached, now, reloads, dispatched, srv>>
  /\ HistNext

\* the catch block of the three thunks up to the fallback: the statuses in
\* `surfaced` are rejected at once, every other error is tested for a network
\* error
ContactsError(s, r, surfaced) ==
  LET o == [ops[s] EXCEPT !.resp = r]
      m == IF HasResponse(r) /\ r.status = 401 THEN AuthFailed
           ELSE IF HasResponse(r) /\ r.status = 404 /\ 404 \in surfaced
                THEN ContactNotFound
           ELSE IF HasResponse(r) THEN "Request failed" ELSE "Network Error"
  IN /\ r # OkResp
     /\ ls' = InterceptLs(r, ls)
     /\ hdr' = InterceptHdr(r, hdr)
     /\ IF (HasResponse(r) /\ r.status \in surfaced) \/ ~IsNetworkError(r)
        THEN /\ contacts' = contactsRejected(contacts, m)
             /\ Finish(s)
             /\ act' = Resolved(o, "rejected", [message |-> m])
        ELSE /\ ops' = [ops EXCEPT ![s] = [o EXCEPT !.pc = "mock", !.timer = now]]
             /\ act' = Step(o, "response")
             /\ UNCHANGED contacts

\* GET /contacts is answered (or not)
FetchResponse(s, r) ==
  /\ At(s, "fetch", "remote")
  /\ LET list == RemoteList(ops[s].tok)
     IN \/ /\ r = OkResp
           /\ contacts' = fetchFulfilled(contacts, list)
           /\ Finish(s)
           /\ act' = Resolved([ops[s] EXCEPT !.resp = r], "fulfilled", [list |-> list])
           /\ UNCHANGED <<hdr, ls>>
        \/ ContactsError(s, r, {401})
  /\ UNCHANGED <<auth, idb, idbUp, detached, now, reloads, dispatched, srv>>
  /\ HistNext

\* mockFetchContacts
FetchMock(s) ==
  /\ At(s, "fetch", "mock")
  /\ LET list == dbGetContacts(Store)
     IN /\ PutStore(dbGetContactsSync(Store))
        /\ contacts' = fetchFulfilled(contacts, list)
        /\ act' = Resolved(ops[s], "fulfilled", [list |-> list])
  /\ Finish(s)
  /\ UNCHANGED <<auth, hdr, idbUp, detached, now, reloads, dispatched, srv>>
  /\ HistNext

\* POST /contacts is answered (or not)
AddResponse(s, r) ==
  /\ At(s, "add", "remote")
  /\ LET c == Contact(RemoteContactId(srv.next), ops[s].arg)
     IN \/ /\ r = OkResp
           /\ srv' = RemoteAdd(ops[s].tok, c)
           /\ contacts' = addFulfilled(contacts, c)
           /\ Finish(s)
           /\ act' = Resolved([ops[s] EXCEPT !.resp = r], "fulfilled", c)
           /\ UNCHANGED <<hdr, ls>>
        \/ /\ ContactsError(s, r, {401, 400, 409})
           /\ UNCHANGED srv
  /\ UNCHANGED <<auth, idb, idbUp, detached, now, reloads, dispatched>>
  /\ HistNext

\* mockAddContact, run by setTimeout(300)
AddMock(s, wrote) ==
  /\ At(s, "add", "mock")
  /\ TimerFired(s)
  /\ LET newContact == Contact(MockId(now), ops[s].arg)
     IN IF wrote
        THEN /\ PutStore(dbAddContact(Store, newContact))
             /\ contacts' = addFulfilled(contacts, newContact)
             /\ act' = Resolved(ops[s], "fulfilled", newContact)
        ELSE \* the write reaches localStorage and throws there (no room, or
             \* 'mock_contacts' does not parse): catch -> resolve({ data: null })
             /\ ~(idbUp /\ CanAddContact(Store, newContact))
             /\ UNCHANGED <<idb, ls>>
             /\ contacts' = addFulfilled(contacts, NullContact)
             /\ act' = Resolved(ops[s], "fulfilled", NullContact)
  /\ Finish(s)
  /\ UNCHANGED <<auth, hdr, idbUp, detached, now, reloads, dispatched, srv>>
  /\ HistNext

\* DELETE /contacts/:id is answered (or not): 404 is the answer for a contact
\* the remote API does not hold
DeleteResponse(s, r) ==
  /\ At(s, "delete", "remote")
  /\ LET id == ops[s].arg.id
     IN \/ /\ r = OkResp
           /\ RemoteHolds(ops[s].tok, id)
           /\ srv' = RemoteDelete(ops[s].tok, id)
           /\ contacts' = deleteFulfilled(contacts, id)
           /\ Finish(s)
           /\ act' = Resolved([ops[s] EXCEPT !.resp = r], "fulfilled", ops[s].arg)
           /\ UNCHANGED <<hdr, ls>>
        \/ /\ r = HttpErr(404) => ~RemoteHolds(ops[s].tok, id)
           /\ ContactsError(s, r, {401, 404})
           /\ UNCHANGED srv
  /\ UNCHANGED <<auth, idb, idbUp, detached, now, reloads, dispatched>>
  /\ HistNext

\* mockDeleteContact
DeleteMock(s) ==
  /\ At(s, "delete", "mock")
  /\ LET id == ops[s].arg.id
         found == \E c \in Range(dbGetContacts(Store)) : c.id = id
     IN IF found
        THEN /\ PutStore(dbDeleteContact(dbGetContactsSync(Store), id))
             /\ contacts' = deleteFulfilled(contacts, id)
             /\ act' = Resolved(ops[s], "fulfilled", ops[s].arg)
        ELSE /\ PutStore(dbGetContactsSync(Store))
             /\ contacts' = contactsRejected(contacts, "Network Error")
             /\ act' = Resolved(ops[s], "rejected", [message |-> "Network Error"])
  /\ Finish(s)
  /\ UNCHANGED <<auth, hdr, idbUp, detached, now, reloads, dispatched, srv>>
  /\ HistNext

\* ------------------------------------------------------------------ environment
\* The page is reloaded: the store is rebuilt from getInitialState(), the thunks
\* in flight are gone, IndexedDB and localStorage stay.
Reload ==
  /\ reloads < MaxReloads
  /\ reloads' = reloads + 1
  /\ auth' = getInitialState(ls)
  /\ hdr' = getTokenFromStorage(ls)
  /\ contacts' = [items |-> <<>>, filter |-> <<>>, status |-> "idle", error |-> Null]
  /\ ops' = [s \in Slots |-> Idle]
  /\ detached' = FALSE
  /\ act' = [NoAct EXCEPT !.kind = "reload"]
  /\ UNCHANGED <<idb, ls, idbUp, now, dispatched, srv>>
  /\ HistNext

\* Date.now() moves on (observed only by a fallback that waits for its timer)
Tick ==
  /\ now < MaxClock
  /\ \E s \in Slots : AwaitsClock(s)
  /\ now' = now + 1
  /\ act' = NoAct
  /\ UNCHANGED <<auth, contacts, hdr, idb, ls, idbUp, ops, detached, reloads, dispatched, srv>>
  /\ HistNext

Init ==
  /\ idbUp \in BOOLEAN
  /\ idb = [token |-> Null, users |-> <<>>, contacts |-> <<>>]
  /\ ls = [token |-> Null, users |-> <<>>, contacts |-> <<>>]
  /\ auth = getInitialState(ls)
  /\ contacts = [items |-> <<>>, filter |-> <<>>, status |-> "idle", error |-> Null]
  /\ hdr = Null
  /\ ops = [s \in Slots |-> Idle]
  /\ detached = FALSE
  /\ now = 1
  /\ reloads = 0
  /\ dispatched = 0
  /\ srv = [next |-> 1,
            lists |-> [e \in Emails |->
                         IF e = "e1" THEN <<Contact(RemoteContactId(0), AnnData)>>
                         ELSE <<>>]]
  /\ hist = NoHist
  /\ act = NoAct

Next ==
  \/ \E s \in Slots : RefreshDispatch(s)
  \/ \E s \in Slots : RefreshGetTok(s)
  \/ \E s \in Slots : RefreshSetHdr(s)
  \/ \E s \in Slots, r \in SessionAnswers : RefreshResponse(s, r)
  \/ \E s \in Slots : RefreshMockFind(s)
  \/ \E s \in Slots : RefreshClear(s)
  \/ \E s \in Slots, d \in UserDatas : RegisterDispatch(s, d)
  \/ \E s \in Slots, r \in UserAnswers : RegisterResponse(s, r)
  \/ \E s \in Slots : RegisterMockFind(s)
  \/ \E s \in Slots : RegisterMockAdd(s)
  \/ \E s \in Slots : RegisterSave(s)
  \/ \E s \in Slots, d \in UserDatas : LoginDispatch(s, d)
  \/ \E s \in Slots, r \in UserAnswers : LoginResponse(s, r)
  \/ \E s \in Slots : LoginMockFind(s)
  \/ \E s \in Slots : LoginSave(s)
  \/ DetachedClear
  \/ \E s \in Slots : LogoutDispatch(s)
  \/ \E s \in Slots : LogoutGetTok(s)
  \/ \E s \in Slots, r \in SessionAnswers : LogoutResponse(s, r)
  \/ \E s \in Slots : LogoutClear(s)
  \/ \E s \in Slots, d \in UpdateDatas : UpdateDispatch(s, d)
  \/ \E s \in Slots : UpdateGetTok(s)
  \/ \E s \in Slots : UpdateSetHdr(s)
  \/ \E s \in Slots, r \in UserAnswers : UpdateResponse(s, r)
  \/ \E s \in Slots : FetchDispatch(s)
  \/ \E s \in Slots, d \in ContactDatas : AddDispatch(s, d)
  \/ \E s \in Slots, id \in ContactIds : DeleteDispatch(s, id)
  \/ \E s \in Slots : ContactsAuth(s)
  \/ \E s \in Slots, r \in Answers({401, 500}) : FetchResponse(s, r)
  \/ \E s \in Slots : FetchMock(s)
  \/ \E s \in Slots, r \in Answers({400, 401, 409, 500}) : AddResponse(s, r)
  \/ \E s \in Slots, wrote \in BOOLEAN : AddMock(s, wrote)
  \/ \E s \in Slots, r \in Answers({401, 404, 500}) : DeleteResponse(s, r)
  \/ \E s \in Slots : DeleteMock(s)
  \/ Reload
  \/ Tick

Spec == Init /\ [][Next]_vars

\* What runs without the user: the refresh effect after a load, the answer (or
\* the request timeout) of a request under way, the continuation of a thunk
\* after an await, the callback of a timer.  The event loop runs each of them
\* when it is due.
Continue ==
  \/ \E s \in Slots : RefreshDispatch(s)
  \/ \E s \in Slots : RefreshGetTok(s)
  \/ \E s \in Slots : RefreshSetHdr(s)
  \/ \E s \in Slots, r \in SessionAnswers : RefreshResponse(s, r)
  \/ \E s \in Slots : RefreshMockFind(s)
  \/ \E s \in Slots : RefreshClear(s)
  \/ \E s \in Slots, r \in UserAnswers : RegisterResponse(s, r)
  \/ \E s \in Slots : RegisterMockFind(s)
  \/ \E s \in Slots : RegisterMockAdd(s)
  \/ \E s \in Slots : RegisterSave(s)
  \/ \E s \in Slots, r \in UserAnswers : LoginResponse(s, r)
  \/ \E s \in Slots : LoginMockFind(s)
  \/ \E s \in Slots : LoginSave(s)
  \/ DetachedClear
  \/ \E s \in Slots : LogoutGetTok(s)
  \/ \E s \in Slots, r \in SessionAnswers : LogoutResponse(s, r)
  \/ \E s \in Slots : LogoutClear(s)
  \/ \E s \in Slots : UpdateGetTok(s)
  \/ \E s \in Slots : UpdateSetHdr(s)
  \/ \E s \in Slots, r \in UserAnswers : UpdateResponse(s, r)
  \/ \E s \in Slots : ContactsAuth(s)
  \/ \E s \in Slots, r \in Answers({401, 500}) : FetchResponse(s, r)
  \/ \E s \in Slots : FetchMock(s)
  \/ \E s \in Slots, r \in Answers({400, 401, 409, 500}) : AddResponse(s, r)
  \/ \E s \in Slots, wrote \in BOOLEAN : AddMock(s, wrote)
  \/ \E s \in Slots, r \in Answers({401, 404, 500}) : DeleteResponse(s, r)
  \/ \E s \in Slots : DeleteMock(s)
  \/ Tick


\* A session under way: the page was loaded with an empty local store, the
\* startup refreshUser found no token, loginUser for e1 was answered 200 and the
\* fetchContacts that follows the login was answered 200.  (The state is a
\* reachable state of Spec; the operations of the session are counted from here.)
SessionUser == [user |-> RemoteUser("n1", "e1"), token |-> RemoteToken("e1")]
SessionAt(n) ==
  /\ idbUp \in BOOLEAN
  /\ LET empty == [token |-> Null, users |-> <<>>, contacts |-> <<>>]
         h == setAuthHeader([idb |-> empty, ls |-> empty], SessionUser.token)
     IN /\ idb = h.st.idb
        /\ ls = h.st.ls
        /\ hdr = h.hdr
        /\ auth = loginFulfilled(
                    loginPending(
                      refreshRejected(refreshPending(getInitialState(empty)),
                                      NoTokenPayload)),
                    SessionUser)
  /\ srv = [next |-> 1,
            lists |-> [e \in Emails |->
                         IF e = "e1" THEN <<Contact(RemoteContactId(0), AnnData)>>
                         ELSE <<>>]]
  /\ contacts = fetchFulfilled([items |-> <<>>, filter |-> <<>>, status |-> "loading", error |-> Null],
                               srv.lists["e1"])
  /\ ops = [s \in Slots |-> Idle]
  /\ detached = FALSE
  /\ now = 1
  /\ reloads = 0
  /\ dispatched = n
  /\ hist = [fresh |-> TRUE, added |-> Null, session |-> "in", overlap |-> "no",
            stale |-> {}, late |-> FALSE, loggedOut |-> FALSE,
            saved |-> SessionUser.token]
  /\ act = NoAct

SessionInit == SessionAt(0)

SpecSession == SessionInit /\ [][Next]_vars

\* the same session with MaxLiveOps operations left, each followed to its end
LiveInit == SessionAt(MaxOps - MaxLiveOps)
SpecLive == LiveInit /\ [][Next]_vars /\ WF_vars(Continue)

\* --- the contacts operations while the remote API cannot be reached: every
\* request ends without a response and the thunk goes on to its fallback
OfflineContactDatas == [name : {"Bob", "bo"}, number : {"555"}]
OfflineNext ==
  \/ \E s \in Slots : FetchDispatch(s)
  \/ \E s \in Slots, d \in OfflineContactDatas : AddDispatch(s, d)
  \/ \E s \in Slots, id \in ContactIds : DeleteDispatch(s, id)
  \/ \E s \in Slots : ContactsAuth(s)
  \/ \E s \in Slots : FetchResponse(s, NoResponse)
  \/ \E s \in Slots : FetchMock(s)
  \/ \E s \in Slots : AddResponse(s, NoResponse)
  \/ \E s \in Slots, wrote \in BOOLEAN : AddMock(s, wrote)
  \/ \E s \in Slots : DeleteResponse(s, NoResponse)
  \/ \E s \in Slots : DeleteMock(s)
  \/ Tick

SpecOffline == SessionInit /\ [][OfflineNext]_vars

\* --- the filter box
\* handleFilterChange(value): dispatch(updateFilter(value))
UpdateFilter(value) ==
  /\ FilterShown
  /\ contacts' = updateFilter(contacts, value)
  /\ act' = [NoAct EXCEPT !.kind = "filter", !.step = "resolve", !.arg = value]
  /\ UNCHANGED <<auth, hdr, idb, ls, idbUp, ops, detached, now, reloads, dispatched, srv>>
  /\ HistNext

\* the texts typed into the filter box
FilterChars == {"B", "o", " "}
FilterTexts == UNION {[1..k -> FilterChars] : k \in 0..MaxFilterLen}

\* the collections the filter is applied to: what GET /contacts answered
FilterContacts ==
  {Contact(RemoteContactId(0), AnnData), Contact(RemoteContactId(1), BobData),
   Contact(RemoteContactId(2), [name |-> "bo", number |-> "555"])}
FilterCollections ==
  {q \in UNION {[1..k -> FilterContacts] : k \in 1..MaxShown} :
     \A i, j \in 1..Len(q) : i # j => q[i].id # q[j].id}

\* a session of e1 (login answered 200) whose contacts have been fetched
FilterInit ==
  /\ idbUp \in BOOLEAN
  /\ LET empty == [token |-> Null, users |-> <<>>, contacts |-> <<>>]
         h == setAuthHeader([idb |-> empty, ls |-> empty], SessionUser.token)
     IN /\ idb = h.st.idb
        /\ ls = h.st.ls
        /\ hdr = h.hdr
        /\ auth = loginFulfilled(
                    loginPending(
                      refreshRejected(refreshPending(getInitialState(empty)),
                                      NoTokenPayload)),
                    SessionUser)
  /\ \E q \in FilterCollections :
       /\ srv = [next |-> 3, lists |-> [e \in Emails |-> IF e = "e1" THEN q ELSE <<>>]]
       /\ contacts = fetchFulfilled([items |-> <<>>, filter |-> <<>>,
                                     status |-> "loading", error |-> Null], q)
  /\ ops = [s \in Slots |-> Idle]
  /\ detached = FALSE
  /\ now = 1
  /\ reloads = 0
  /\ dispatched = 0
  /\ hist = [fresh |-> TRUE, added |-> Null, session |-> "in", overlap |-> "no",
            stale |-> {}, late |-> FALSE, loggedOut |-> FALSE,
            saved |-> SessionUser.token]
  /\ act = NoAct

FilterNext == \E value \in FilterTexts : UpdateFilter(value)

\* The filter text is read by the render of the list alone and written by
\* updateFilter alone, so it is followed in a specification of its own.
SpecFilter == FilterInit /\ [][FilterNext]_vars

\* ------------------------------------------------------------------ properties
ResolvedAs(kind, out) == act.kind = kind /\ act.step = "resolve" /\ act.out = out
TokenAbsent == idb.token = Null /\ ls.token = Null
AllUsers == Range(idb.users) \cup Range(ls.users)

\* C1: isLoggedIn is true only if the session token is non-null (and the user
\* was fetched since that token was set).
C1_LoggedInOnlyWithToken == auth.isLoggedIn => auth.token # Null

C1_Witness ==
  /\ idbUp /\ reloads = 1
  /\ ResolvedAs("refresh", "fulfilled") /\ act.resp = OkResp
  /\ auth.isLoggedIn /\ auth.token = Null

\* C2: after logout resolves, whatever the remote call did, the token is null,
\* isLoggedIn is false, the user is the empty sentinel, the error is null and
\* the persisted token is gone from both tiers.
C2_LogoutClearsSession ==
  (act.kind = "logout" /\ act.step = "resolve") =>
    /\ auth.token = Null /\ ~auth.isLoggedIn
    /\ auth.user = EmptyUser /\ auth.error = NoError
    /\ TokenAbsent

C2_Witness ==
  /\ ResolvedAs("logout", "fulfilled")
  /\ act.resp = NoResponse /\ act.tok # Null

\* C3: a startup refresh of a persisted token that gets no response leaves the
\* session authenticated: isLoggedIn, the same token in the session and in the
\* store, and the cached user.
C3_RefreshOfflineStaysLoggedIn ==
  (act.kind = "refresh" /\ act.step = "resolve" /\ act.resp = NoResponse) =>
    /\ auth.isLoggedIn
    /\ auth.token = act.tok
    /\ dbGetToken(Store) = act.tok
    /\ auth.user # EmptyUser

\* C4: a step of an operation whose remote call got no response neither clears
\* the session token nor removes the persisted token.
C4_NoResponseKeepsToken ==
  [][(act'.resp = NoResponse /\ act'.kind # "logout") =>
       /\ auth.token # Null => auth'.token # Null
       /\ dbGetToken(Store) # Null => dbGetToken(Store)' # Null]_vars

\* C5: an operation whose remote call was answered with an HTTP status never
\* goes on to the local fallback.
C5_NoFallbackOnHttpStatus ==
  \A s \in Slots :
    HasResponse(ops[s].resp) => ops[s].pc \notin {"mock", "mockFind", "mockAdd"}

\* C6: list, add, delete, updateProfile and refresh, answered 401, resolve with
\* the session cleared: token null, isLoggedIn false, persisted token gone from
\* every tier.
C6_UnauthorizedClearsSession ==
  (/\ act.step = "resolve" /\ act.resp = HttpErr(401)
   /\ act.kind \in {"fetch", "add", "delete", "update", "refresh"}) =>
    /\ auth.token = Null /\ ~auth.isLoggedIn
    /\ TokenAbsent

\* C7: a refresh of a persisted token that is answered 401 resolves with token
\* null, isLoggedIn false, isRefreshing false, the empty user and the persisted
\* token removed.
C7_RefreshUnauthorized ==
  (act.kind = "refresh" /\ act.step = "resolve" /\ act.resp = HttpErr(401)) =>
    /\ act.out = "rejected"
    /\ auth.token = Null /\ ~auth.isLoggedIn /\ ~auth.isRefreshing
    /\ auth.user = EmptyUser
    /\ TokenAbsent

C7_Witness ==
  /\ ResolvedAs("refresh", "rejected")
  /\ act.resp = HttpErr(401) /\ act.tok # Null

\* C8: a refresh that finds no token in the state, in localStorage or in
\* IndexedDB sends no request and resolves with isLoggedIn false, token null
\* and isRefreshing false; a refresh sends its request only with a token.
C8_RefreshWithoutToken ==
  /\ (act.kind = "refresh" /\ act.step = "resolve" /\ act.tok = Null) =>
       /\ act.resp = Unsent
       /\ ~auth.isLoggedIn /\ auth.token = Null /\ ~auth.isRefreshing
  /\ \A s \in Slots :
       (ops[s].kind = "refresh" /\ ops[s].pc # "getTok") => ops[s].tok # Null
  /\ (act.kind = "refresh" /\ act.resp # Unsent) => act.tok # Null

C8_Witness ==
  /\ ResolvedAs("refresh", "rejected")
  /\ act.tok = Null /\ TokenAbsent /\ reloads = 1

\* the record of the registered user is in the local store
UserRecordPresent(p) ==
  \E u \in AllUsers : PublicUser(u) = p.user /\ u.token = p.token

C10_RejectedRegisterChangesOnlyError ==
  [][(/\ act'.kind = "register"
      /\ \/ act'.step = "dispatch"
         \/ act'.step = "response" /\ act'.resp = NoResponse
         \/ /\ act'.step = "resolve" /\ act'.out = "rejected"
            /\ act'.payload.status \in {400, 409}) =>
       /\ auth' = [auth EXCEPT !.error = auth'.error]
       /\ act'.step = "resolve" => auth'.error = act'.payload
       /\ idb' = idb /\ ls' = ls /\ contacts' = contacts]_vars

C10_Witness ==
  /\ ResolvedAs("register", "rejected")
  /\ act.payload.status = 409 /\ act.resp = NoResponse
  /\ auth.isLoggedIn /\ auth.token # Null


\* C11: a login whose request got no response succeeds exactly if a user with
\* that email is in the local store; it then returns the id and token of that
\* stored user, and otherwise it is rejected with status 401.
C11_FallbackLoginIffStored ==
  (act.kind = "login" /\ act.step = "resolve" /\ act.resp = NoResponse) =>
    IF \E u \in AllUsers : u.email = act.arg.email
    THEN /\ act.out = "fulfilled"
         /\ \E u \in AllUsers : /\ u.email = act.arg.email
                                /\ act.payload.user.id = u.id
                                /\ act.payload.token = u.token
         /\ act.payload.user.id # Null /\ act.payload.token # Null
    ELSE act.out = "rejected" /\ act.payload.status = 401

\* C12: an update whose PATCH /users got no response is settled by the local
\* store (it is fulfilled, or rejected with the status the local update
\* answers), and after every fulfilled update the session user is the returned
\* record and a persisted user record holds the returned fields.
C12_UpdateFallsBackAndPersists ==
  (act.kind = "update" /\ act.step = "resolve") =>
    /\ act.resp = NoResponse => (act.out = "fulfilled" \/ act.payload.status # 0)
    /\ act.out = "fulfilled" =>
         /\ auth.user = act.payload
         /\ \E u \in AllUsers : PublicUser(u) = act.payload

\* C13: a fetch answered by the remote API leaves the collection equal to the
\* list the remote API holds for the account; a fetch whose request got no
\* response is fulfilled and leaves the collection equal to the contacts of the
\* local store.
C13_FetchReplacesCollection ==
  (act.kind = "fetch" /\ act.step = "resolve") =>
    /\ act.resp = OkResp =>
         act.out = "fulfilled" /\ contacts.items = RemoteList(act.tok)
    /\ act.resp = NoResponse =>
         /\ act.out = "fulfilled"
         /\ contacts.items = ls.contacts
         /\ idbUp => contacts.items = idb.contacts

\* a fallback fetch has put a local contact in place of the remote ones shown
C13_Witness ==
  /\ ResolvedAs("fetch", "fulfilled") /\ act.resp = NoResponse
  /\ contacts.items # <<>>
  /\ \A c \in Range(contacts.items) : c.id \notin RemoteContactIds
  /\ RemoteList(act.tok) # <<>>

C15_DeleteRemovesOne ==
  [][(act'.kind = "delete" /\ act'.step = "resolve") =>
       LET id == act'.arg.id
       IN IF \E c \in Range(contacts.items) : c.id = id
          THEN act'.out = "fulfilled" =>
                 /\ \A c \in Range(contacts'.items) : c.id # id
                 /\ Len(contacts'.items) = Len(contacts.items) - 1
          ELSE /\ contacts'.items = contacts.items
               /\ act'.resp \in {OkResp, NoResponse, HttpErr(404)} =>
                    /\ act'.out = "rejected"
                    /\ act'.payload.message = ContactNotFound]_vars

\* C16: a fetch that is fulfilled when the collection is the result of the
\* fetch before it, with no add or delete in between, leaves the collection as
\* that fetch left it (same contacts, same order).
C16_FetchTwiceSame ==
  [][(/\ act'.kind = "fetch" /\ act'.step = "resolve" /\ act'.out = "fulfilled"
      /\ hist.fresh) =>
       contacts'.items = contacts.items]_vars

\* C17: a delete of the id the add before it returned, fulfilled with nothing
\* else in between, leaves the collection as it was before that add (the
\* collection without the entry the add appended).
C17_AddThenDeleteRestores ==
  [][(/\ act'.kind = "delete" /\ act'.step = "resolve" /\ act'.out = "fulfilled"
      /\ hist.added # Null /\ hist.added = act'.arg.id) =>
       contacts'.items = SubSeq(contacts.items, 1, Len(contacts.items) - 1)]_vars

\* C18: after a fulfilled login and a fulfilled logout that left no token in the
\* local store, a refresh is rejected and leaves isLoggedIn false and the
\* session token null.
C18_RefreshAfterLogoutAnonymous ==
  (act.kind = "refresh" /\ act.step = "resolve" /\ hist.session = "out") =>
    /\ act.out = "rejected"
    /\ ~auth.isLoggedIn
    /\ auth.token = Null

\* the refresh of the page load that follows the logout has resolved
C18_Witness ==
  /\ act.kind = "refresh" /\ act.step = "resolve"
  /\ hist.session = "out"
  /\ reloads = 1
  /\ ~auth.isRefreshing

ContactsKinds == {"fetch", "add", "delete"}

\* C19 (as stated): a fetch, add or delete sends its request, and is fulfilled
\* (by the remote API or by the fallback), only in a state where isLoggedIn is
\* true.
C19_EffectOnlyLoggedIn ==
  [][(/\ act'.kind \in ContactsKinds
      /\ \/ act'.step = "auth"
         \/ act'.step = "resolve" /\ act'.out = "fulfilled") =>
       auth.isLoggedIn]_vars

\* C19 (amended): a fetch, add or delete is dispatched only in a state where
\* isLoggedIn is true and the startup refresh is over, and it sends its request
\* only if the local store holds a token.
C19_StartedOnlyLoggedIn ==
  [][/\ (act'.kind \in ContactsKinds /\ act'.step = "dispatch") =>
          auth.isLoggedIn /\ ~auth.isRefreshing
     /\ (act'.kind \in ContactsKinds /\ act'.step = "auth") =>
          dbGetToken(Store) # Null /\ act'.tok = dbGetToken(Store)]_vars

\* an add dispatched during the session sends its request after the session
\* has ended
C19_Witness ==
  /\ act.kind = "add" /\ act.step = "auth"
  /\ ~auth.isLoggedIn
  /\ dbGetToken(Store) # Null

DistinctIds(q) == \A i, j \in 1..Len(q) : i # j => q[i].id # q[j].id

\* C20: no two contacts of the collection have the same id, and no two contacts
\* of the local store (in either tier) have the same id.
C20_ContactIdsUnique ==
  /\ DistinctIds(contacts.items)
  /\ DistinctIds(idb.contacts)
  /\ DistinctIds(ls.contacts)

MutationKinds == {"login", "register", "update", "add", "delete"}

\* C21: after every fulfilled login, register, update, add or delete the local
\* store holds the session token, a user record for the session user, and a
\* contact collection equal to the collection in memory.
C21_StoreMirrorsSession ==
  (act.kind \in MutationKinds /\ act.step = "resolve" /\ act.out = "fulfilled") =>
    /\ auth.token # Null /\ dbGetToken(Store) = auth.token
    /\ \E u \in AllUsers : PublicUser(u) = auth.user
    /\ dbGetContacts(Store) = contacts.items

\* C22: when a logout is fulfilled, and when a refresh is rejected because the
\* token is invalid, the local store holds no token, no user record that
\* carries the token of the session that ended, and no contacts.
C22_SessionEndClearsStore ==
  (\/ ResolvedAs("logout", "fulfilled")
   \/ ResolvedAs("refresh", "rejected") /\ act.payload = InvalidTokenPayload) =>
    /\ TokenAbsent
    /\ \A u \in AllUsers : u.token # act.tok
    /\ idb.contacts = <<>> /\ ls.contacts = <<>>

Authenticated(a) == a.isLoggedIn /\ a.token # Null
C24_SessionEndsOnlyByLogoutOrInvalidToken ==
  [][(Authenticated(auth) /\ ~Authenticated(auth')) =>
       \/ act'.kind = "logout" /\ act'.step = "resolve"
       \/ act'.kind = "refresh" /\ act'.step = "resolve" /\ act'.out = "rejected"
       \/ act'.kind = "reload"]_vars

\* C25: once a request has been answered 401, no token remains where a later
\* request (dbGetToken, the default header) or a later startup
\* (getTokenFromStorage, dbGetToken) reads it.
C25_UnauthorizedLeavesNoToken ==
  (act.resp = HttpErr(401) /\ act.step \in {"response", "resolve"}) =>
    /\ dbGetToken(Store) = Null
    /\ getTokenFromStorage(ls) = Null
    /\ hdr = Null

\* C26: a change of the filter text leaves the in-memory collection as it was,
\* and the displayed list is the subsequence, in collection order, of the
\* contacts whose name contains the filter text ignoring case.
SameIgnoringCase(a, b) == LowerChar(a) = LowerChar(b)
ContainsIgnoringCase(t, part) ==
  \E k \in 0..(Len(t) - Len(part)) :
    \A j \in 1..Len(part) : SameIgnoringCase(t[k + j], part[j])
Matching(items, text) ==
  {i \in 1..Len(items) : ContainsIgnoringCase(Letters(items[i].name), text)}
\* shown is items restricted to the indices I, in the order of items
IsSubsequenceAt(shown, items, I) ==
  /\ Len(shown) = Cardinality(I)
  /\ \E f \in [1..Len(shown) -> I] :
       /\ \A a, b \in 1..Len(shown) : a < b => f[a] < f[b]
       /\ \A a \in 1..Len(shown) : shown[a] = items[f[a]]
C26_FilterShowsMatches ==
  [][act'.kind = "filter" =>
       /\ contacts'.items = contacts.items
       /\ IsSubsequenceAt(Shown(contacts'), contacts'.items,
                          Matching(contacts'.items, contacts'.filter))]_vars

\* C26 (amended): as above, for the filter text without the white space at its
\* ends.
C26_FilterShowsTrimmedMatches ==
  [][act'.kind = "filter" =>
       /\ contacts'.items = contacts.items
       /\ IsSubsequenceAt(Shown(contacts'), contacts'.items,
                          Matching(contacts'.items, trim(contacts'.filter)))]_vars

C26_Witness ==
  /\ act.kind = "filter"
  /\ contacts.filter = <<" ", "B">>
  /\ Len(contacts.items) = 3
  /\ Len(Shown(contacts)) = 2

\* C27: with every add submitted through handleAddContact, the in-memory
\* collection never holds two contacts whose names are equal ignoring case,
\* whatever the order of the add submissions and the add responses.
C27_NamesUniqueIgnoringCase ==
  \A i, j \in 1..Len(contacts.items) :
    i # j => toLowerCase(contacts.items[i].name) # toLowerCase(contacts.items[j].name)

\* C28: a write to the persisted token starts only when the write before it has
\* completed: while the removal started by loginUser.rejected is still under
\* way, no step saves a token, so the removal never completes after a save that
\* started later.
C28_TokenWritesDoNotOverlap ==
  [][(detached /\ act'.step # "detachedClear") =>
       ~(dbGetToken(Store)' # Null /\ dbGetToken(Store)' # dbGetToken(Store))]_vars

\* C29: no step of list, add or delete writes the persisted token or the users
\* collection of the Local Store, and no step of register, login, logout,
\* refresh or updateProfile writes its contact collection.
SessionKinds == {"register", "login", "logout", "refresh", "update"}
TokenKept == idb'.token = idb.token /\ ls'.token = ls.token
UsersKept == idb'.users = idb.users /\ ls'.users = ls.users
ContactsKept == idb'.contacts = idb.contacts /\ ls'.contacts = ls.contacts
C29_StoresKeptApart ==
  [][/\ act'.kind \in ContactsKinds => TokenKept /\ UsersKept
     /\ act'.kind \in SessionKinds => ContactsKept]_vars

\* C29 (amended): as above, but for the removal of the localStorage token by the
\* response interceptor in the step that receives a 401 answer.
C29_StoresKeptApartBut401 ==
  [][/\ act'.kind \in ContactsKinds =>
          /\ UsersKept
          /\ idb'.token = idb.token
          /\ \/ ls'.token = ls.token
             \/ act'.resp = HttpErr(401) /\ ls'.token = Null
     /\ act'.kind \in SessionKinds => ContactsKept]_vars

C29_Witness ==
  /\ ResolvedAs("fetch", "rejected")
  /\ act.resp = HttpErr(401)
  /\ ~idbUp /\ act.tok # Null /\ ls.token = Null
  /\ ls.contacts # <<>>

\* C30: when two fetches were in flight at once, the collection after both have
\* resolved is the list of the one that resolved last (fulfilled), whichever of
\* them was dispatched first.
C30_LastFetchWins ==
  (hist.overlap = "both" /\ ResolvedAs("fetch", "fulfilled")) =>
    contacts.items = act.payload.list

\* the fallback answer of one fetch has replaced the remote answer of the other
C30_Witness ==
  /\ hist.overlap = "both"
  /\ ResolvedAs("fetch", "fulfilled")
  /\ act.resp = NoResponse
  /\ contacts.items = <<>>
  /\ RemoteList(act.tok) # <<>>

\* C31: an add or a delete that is fulfilled after a fetch replaced the
\* collection while it was in flight is applied to the collection as it then
\* is: the add appends its contact, the delete removes the contact of its id,
\* with no test that the response is still current.
C31_LateResponseStillApplies ==
  [][(/\ act'.step = "resolve" /\ act'.out = "fulfilled"
      /\ \E s \in hist.stale : ops[s] # Idle /\ ops'[s] = Idle) =>
       /\ act'.kind = "add" =>
            contacts'.items = Append(contacts.items, act'.payload)
       /\ act'.kind = "delete" =>
            contacts'.items = SelectSeq(contacts.items, LAMBDA c : c.id # act'.arg.id)]_vars

\* a fallback add resolved after a fetch had put the remote list in place
C31_Witness ==
  /\ hist.late /\ ResolvedAs("add", "fulfilled")
  /\ Len(contacts.items) = 2
  /\ contacts.items[1] = Contact(RemoteContactId(0), AnnData)
  /\ contacts.items[2] = act.payload

\* C32: every operation that was dispatched resolves (as fulfilled, or as
\* rejected with a payload that carries a message), also when its request gets
\* no answer, so isRefreshing does not stay true and contacts.status does not
\* stay 'loading'.  (ClockSpent: the last reading of the bounded clock has been
\* taken, so a timer set now is not followed further.)
ClockSpent == now = MaxClock
UniqueEmails(users) ==
  \A i, j \in 1..Len(users) : i # j => users[i].email # users[j].email
C33_StoredEmailsUnique == UniqueEmails(idb.users) /\ UniqueEmails(ls.users)

\* C34: from the resolution of a logout until a login or a register is
\* fulfilled, no token is persisted and the default Authorization header is
\* unset, whatever the operations in flight at the logout do afterwards.
C34_LoggedOutStaysTokenless ==
  hist.loggedOut => TokenAbsent /\ hdr = Null

\* C35: the collection shown to the user who is logged in holds no contact
\* that the remote API keeps for another account (a contact added in another
\* user's session).
C35_NoContactOfAnotherUser ==
  (PrivateShown /\ auth.user.email \in Emails) =>
    \A c \in Range(contacts.items) :
      \A e \in Emails \ {auth.user.email} :
        \A d \in Range(srv.lists[e]) : d.id # c.id

\* C36: a private route that shows "Loading..." eventually shows its content
\* or redirects to /login, whatever the outcome of the startup refresh.
C36_PrivateRouteLeavesLoading == PrivateLoading ~> ~PrivateLoading

\* after a reload the refresh was answered 500, the local lookup failed, and
\* the route has left "Loading..."
C36_Witness ==
  /\ reloads = 1
  /\ ResolvedAs("refresh", "rejected") /\ act.resp = HttpErr(500)
  /\ ~PrivateLoading /\ ~auth.isLoggedIn

\* C37: every element of the collection is a contact with an id, a name and a
\* number; a fallback add whose write to the local store failed puts nothing
\* into the collection.
C37_NoNullInCollection ==
  \A i \in 1..Len(contacts.items) :
    LET c == contacts.items[i]
    IN c.id # Null /\ c.name # Null /\ c.number # Null

\* C39: a fallback list returns every contact that a fallback add has put into
\* the local store and no delete has taken out of it, in whichever tier the
\* write was accepted.
C39_FallbackListReturnsStored ==
  [][(act'.kind = "fetch" /\ act'.step = "resolve" /\ act'.out = "fulfilled"
      /\ act'.resp = NoResponse) =>
       \A c \in Range(idb.contacts) \cup Range(ls.contacts) :
         c \in Range(act'.payload.list)]_vars

\* C38: the token the startup refresh picks (from the state or localStorage at
\* its dispatch, else from dbGetToken) is, when it picks one, the token saved
\* by the most recent fulfilled login or register, and none after a logout.
C38_RefreshUsesLatestToken ==
  [][/\ (act'.kind = "refresh" /\ act'.step = "dispatch" /\ act'.tok # Null) =>
          act'.tok = hist.saved
     /\ (act'.kind = "refresh" /\ act'.step = "getTok"
         /\ getTokenFromStorageAsync(Store) # Null) =>
          getTokenFromStorageAsync(Store) = hist.saved]_vars

\* C40: contacts.status is 'loading' in exactly the states where a list, an add
\* or a delete is in flight.
C40_LoadingIffInFlight ==
  contacts.status = "loading" <=> \E s \in Slots : ops[s].kind \in ContactsKinds

====
